---- MODULE Spec2Model ----
(***************************************************************************)
(* Model of dpxVersioning.py (DPX Versioning add-in for Fusion 360).       *)
(*                                                                         *)
(* One invocation of DpxVersioningCommandExecuteHandler.notify: the        *)
(* precondition guards, the retag pass over components and bodies, the     *)
(* commit (doc.save) with its single fallback, and export_bodies with its  *)
(* visibility protocol.  Names are sequences of one-character strings so   *)
(* that the suffix pattern, lower() and startswith() are computed.         *)
(***************************************************************************)
EXTENDS Integers, Sequences, FiniteSets, TLC

(***************************************************************************)
(* Characters and strings                                                  *)
(***************************************************************************)
UpperChars == <<"A","B","C","D","E","F","G","H","I","J","K","L","M",
                "N","O","P","Q","R","S","T","U","V","W","X","Y","Z">>

LowerChars == <<"a","b","c","d","e","f","g","h","i","j","k","l","m",
                "n","o","p","q","r","s","t","u","v","w","x","y","z">>

DigitChars == <<"0","1","2","3","4","5","6","7","8","9">>

IsDigit(c) == \E i \in DOMAIN DigitChars : DigitChars[i] = c

\* str.lower() on one character
LowerChar(c) ==
    IF \E i \in DOMAIN UpperChars : UpperChars[i] = c
    THEN LowerChars[CHOOSE i \in DOMAIN UpperChars : UpperChars[i] = c]
    ELSE c

\* str.lower()
lower(s) == [i \in DOMAIN s |-> LowerChar(s[i])]

\* str.startswith(p)
startswith(s, p) ==
    /\ Len(p) <= Len(s)
    /\ \A i \in 1..Len(p) : s[i] = p[i]

\* s[:n]
Take(s, n) == IF Len(s) <= n THEN s ELSE SubSeq(s, 1, n)

\* str.replace('_', '-')
prefix_with_dash(file_prefix) ==
    [i \in DOMAIN file_prefix |->
        IF file_prefix[i] = "_" THEN "-" ELSE file_prefix[i]]

\* str(n) for n >= 0, as used by the f-string f"{baseName}_v{nextVerNum}"
RECURSIVE IntToStr(_)
IntToStr(n) ==
    IF n < 10 THEN <<DigitChars[n + 1]>>
    ELSE Append(IntToStr(n \div 10), DigitChars[(n % 10) + 1])

\* filename.split('_')[0]
SplitFirst(s) ==
    IF \E i \in DOMAIN s : s[i] = "_"
    THEN SubSeq(s, 1, (CHOOSE i \in DOMAIN s :
                          /\ s[i] = "_"
                          /\ \A j \in 1..(i - 1) : s[j] # "_") - 1)
    ELSE s

(***************************************************************************)
(* The suffix pattern  re.match(r'^(.+)_v(\d+)$', name)                    *)
(*   '.'  is any character but a newline, '.+' needs one character at      *)
(*   least, and '$' is the end of the string or the place before a single  *)
(*   trailing newline.  VersionMatch is the length of group(1), 0 when     *)
(*   the pattern does not match.                                           *)
(***************************************************************************)
\* a variant of the pattern without its end anchor: one digit after _v is
\* enough, whatever follows
MatchesAt_NoEndAnchor(name, i) ==
    /\ i >= 1
    /\ i + 3 <= Len(name)
    /\ \A j \in 1..i : name[j] # "\n"
    /\ name[i + 1] = "_"
    /\ name[i + 2] = "v"
    /\ IsDigit(name[i + 3])

MatchesAt(name, i) ==
    LET end == IF name[Len(name)] = "\n" THEN Len(name) - 1 ELSE Len(name)
    IN  /\ i >= 1
        /\ i + 3 <= end
        /\ \A j \in 1..i : name[j] # "\n"
        /\ name[i + 1] = "_"
        /\ name[i + 2] = "v"
        /\ \A j \in (i + 3)..end : IsDigit(name[j])

VersionMatch(name) ==
    IF name # <<>> /\ \E i \in 1..Len(name) : MatchesAt(name, i)
    THEN CHOOSE i \in 1..Len(name) :
            /\ MatchesAt(name, i)
            /\ \A k \in 1..Len(name) : MatchesAt(name, k) => k <= i
    ELSE 0

\* baseName = match.group(1) if match else current_name
baseName(name) ==
    IF VersionMatch(name) > 0 THEN SubSeq(name, 1, VersionMatch(name)) ELSE name

\* a variant of new_name that appends to the whole current name
new_name_KeepsSuffix(name, ver) == name \o <<"_", "v">> \o IntToStr(ver)

\* a variant of new_name that joins with -v
new_name_DashV(name, ver) == baseName(name) \o <<"-", "v">> \o IntToStr(ver)

\* new_name = f"{baseName}_v{nextVerNum}"
new_name(name, ver) == baseName(name) \o <<"_", "v">> \o IntToStr(ver)

\* a variant of matches_prefix that compares without lower()
matches_prefix_CaseSensitive(name, file_prefix) ==
    IF name = <<>> THEN FALSE
    ELSE \/ startswith(baseName(name), file_prefix)
         \/ startswith(baseName(name), prefix_with_dash(file_prefix))

\* def matches_prefix(name, file_prefix)
matches_prefix(name, file_prefix) ==
    IF name = <<>> THEN FALSE
    ELSE LET base_name_lower == lower(baseName(name))
         IN  \/ startswith(base_name_lower, file_prefix)
             \/ startswith(base_name_lower, prefix_with_dash(file_prefix))

\* a variant of matches without the dash form of the prefix
matches_UnderscoreOnly(current_name, file_prefix) ==
    startswith(lower(baseName(current_name)), file_prefix)

\* the match decision written inline in the retag loops of notify
matches(current_name, file_prefix) ==
    LET base_name_lower == lower(baseName(current_name))
    IN  \/ startswith(base_name_lower, file_prefix)
        \/ startswith(base_name_lower, prefix_with_dash(file_prefix))

\* a variant of computePrefix without lower()
computePrefix_NoLower(filename) ==
    IF \E i \in DOMAIN filename : filename[i] = "_"
    THEN Take(SplitFirst(filename), 3) \o <<"_">>
    ELSE Take(filename, 3) \o <<"_">>

\* file_prefix from doc.name
computePrefix(filename) ==
    IF \E i \in DOMAIN filename : filename[i] = "_"
    THEN Take(lower(SplitFirst(filename)), 3) \o <<"_">>
    ELSE Take(lower(filename), 3) \o <<"_">>

(***************************************************************************)
(* The document tree handed out by the host.  A design lists its           *)
(* components (root included), its occurrences (each a placement of one    *)
(* component under the root or under another occurrence) and the bodies    *)
(* each component owns.                                                    *)
(***************************************************************************)
rootComp == "root"

\* the parent of an occurrence placed directly under the root
NoOcc == "none"

\* root -> A:1 -> B:1 ; bodies a (A), b (B)
DesignNested ==
    [ allComponents   |-> <<"root", "A", "B">>,
      allOccurrences  |-> <<"o1", "o2">>,
      component       |-> [o1 |-> "A", o2 |-> "B"],
      parentOcc       |-> [o1 |-> NoOcc, o2 |-> "o1"],
      bRepBodies      |-> [root |-> <<>>, A |-> <<"a">>, B |-> <<"b">>],
      parentComponent |-> [a |-> "A", b |-> "B"] ]

\* root -> A:1, A:2 (one component placed twice) ; bodies r (root), a (A)
DesignPlacedTwice ==
    [ allComponents   |-> <<"root", "A">>,
      allOccurrences  |-> <<"o1", "o2">>,
      component       |-> [o1 |-> "A", o2 |-> "A"],
      parentOcc       |-> [o1 |-> NoOcc, o2 |-> NoOcc],
      bRepBodies      |-> [root |-> <<"r">>, A |-> <<"a">>],
      parentComponent |-> [r |-> "root", a |-> "A"] ]

Designs == {DesignNested, DesignPlacedTwice}

SeqToSet(s) == {s[i] : i \in DOMAIN s}

Components(d) == SeqToSet(d.allComponents)

Occurrences(d) == SeqToSet(d.allOccurrences)

Bodies(d) == DOMAIN d.parentComponent

\* occ.childOccurrences, in the order of allOccurrences
\* a variant of childOccurrences that takes every other occurrence for a child
childOccurrences_AllOthers(d, occ) ==
    SelectSeq(d.allOccurrences, LAMBDA o : o # occ)

childOccurrences(d, occ) ==
    SelectSeq(d.allOccurrences, LAMBDA o : d.parentOcc[o] = occ)

(***************************************************************************)
(* Names and inputs                                                        *)
(***************************************************************************)
N_dpx_lever       == <<"d","p","x","_","l","e","v","e","r">>

N_dpx_bracket_v2  == <<"d","p","x","_","b","r","a","c","k","e","t","_","v","2">>

N_DPX_Arm_v10     == <<"D","P","X","-","A","r","m","_","v","1","0">>

N_std_screw       == <<"s","t","d","_","s","c","r","e","w">>

N_root            == <<"d","p","x","_","w","i","d","g","e","t"," ","v","3">>

F_dpx_widget_f3d  == <<"d","p","x","_","w","i","d","g","e","t",".","f","3","d">>

F_DPXtool         == <<"D","P","X","t","o","o","l">>

\* names a component or a body may carry when the button is pressed
ComponentNames == {N_DPX_Arm_v10, N_std_screw, <<>>}

BodyNames == {N_dpx_bracket_v2, N_dpx_lever, N_std_screw, <<>>}

DocNames == {F_dpx_widget_f3d, F_DPXtool}

MaxVersion == 9

Versions == {3, MaxVersion}

VARIABLES
    design,                  \* the document tree (fixed during an invocation)
    versionNumber,           \* doc.dataFile.versionNumber
    with_export,             \* which button: self.with_export
    filename,                \* doc.name
    compName,                \* component -> name
    bodyName,                \* body -> name
    occVis,                  \* occurrence -> isLightBulbOn
    bodyVis,                 \* body -> isLightBulbOn
    pc,                      \* position in notify / export_bodies
    file_prefix,
    nextVerNum,
    idx,                     \* position of the retag loops
    renamed_count,
    skipped_count,
    component_renamed_count,
    component_skipped_count,
    commit_message,
    messages,                \* ui.messageBox calls, in order
    debug_errors,            \* debug_info's ERROR lines: the refused renames
    saveLog,                 \* doc.save calls, in order
    items_to_export,
    original_visibility,
    itemIdx,                 \* position of the export loop
    visibility_changes,
    original_body_state,
    exported_count,
    failed_items,
    execLog,                 \* exportMgr.execute calls, in order
    pre                      \* names and visibility when the invocation began

treeVars   == <<design, with_export, filename>>
nameVars   == <<compName, bodyName>>
visVars    == <<occVis, bodyVis>>
countVars  == <<renamed_count, skipped_count, component_renamed_count,
                component_skipped_count, debug_errors>>
commitVars == <<commit_message, saveLog, versionNumber>>
exportVars == <<items_to_export, original_visibility, itemIdx,
                visibility_changes, original_body_state,
                exported_count, failed_items, execLog>>

vars == <<design, versionNumber, with_export, filename, compName, bodyName, occVis,
          bodyVis, pc, file_prefix, nextVerNum, idx, renamed_count,
          skipped_count, component_renamed_count, component_skipped_count,
          commit_message, messages, debug_errors, saveLog, items_to_export,
          original_visibility, itemIdx, visibility_changes,
          original_body_state, exported_count, failed_items, execLog, pre>>

(***************************************************************************)
(* Initial states: a saved or unsaved document with some tree, some names  *)
(* and some visibility, and one of the two buttons about to run.           *)
(***************************************************************************)
Blank ==
    /\ pc = "start"
    /\ file_prefix = <<>>
    /\ nextVerNum = 0
    /\ idx = 0
    /\ renamed_count = 0
    /\ skipped_count = 0
    /\ component_renamed_count = 0
    /\ component_skipped_count = 0
    /\ commit_message = <<>>
    /\ messages = <<>>
    /\ debug_errors = <<>>
    /\ saveLog = <<>>
    /\ items_to_export = <<>>
    /\ original_visibility = <<>>
    /\ itemIdx = 0
    /\ visibility_changes = <<>>
    /\ original_body_state = FALSE
    /\ exported_count = 0
    /\ failed_items = <<>>
    /\ execLog = <<>>

Snapshot ==
    pre = [compName |-> compName, bodyName |-> bodyName,
           occVis |-> occVis, bodyVis |-> bodyVis,
           versionNumber |-> versionNumber, passes |-> <<>>]

NamedComponents(d, names) ==
    {f \in [Components(d) -> names \cup {N_root}] :
        /\ f[rootComp] = N_root
        /\ \A c \in Components(d) \ {rootComp} : f[c] # N_root}

\* a document with everything shown, one of the two buttons pressed
Init ==
    /\ design \in Designs
    /\ versionNumber \in Versions
    /\ with_export \in BOOLEAN
    /\ filename = F_dpx_widget_f3d
    /\ compName \in NamedComponents(design, ComponentNames)
    /\ bodyName \in [Bodies(design) -> BodyNames]
    /\ occVis = [o \in Occurrences(design) |-> TRUE]
    /\ bodyVis = [b \in Bodies(design) |-> TRUE]
    /\ Snapshot
    /\ Blank

(***************************************************************************)
(* notify, lines 489-539: the three guards, then nextVerNum, file_prefix   *)
(* and the counters.                                                       *)
(***************************************************************************)
Report(text) == messages' = Append(messages, text)

\* a variant of PreconditionFails without the return after the message box
PreconditionFails_NoReturn ==
    /\ pc = "start"
    /\ \E why \in {"No active Fusion design found.",
                   "No active document found.",
                   "Please save the document first."} : Report(why)
    /\ file_prefix' = computePrefix(filename)
    /\ nextVerNum' = versionNumber + 1
    /\ idx' = 1
    /\ pc' = "retag"
    /\ UNCHANGED <<treeVars, nameVars, visVars, countVars, commitVars,
                   exportVars, pre>>

PreconditionFails ==
    /\ pc = "start"
    /\ \E why \in {"No active Fusion design found.",
                   "No active document found.",
                   "Please save the document first."} : Report(why)
    /\ pc' = "done"
    /\ UNCHANGED <<treeVars, nameVars, visVars, countVars, commitVars,
                   exportVars, file_prefix, nextVerNum, idx, pre>>

Begin ==
    /\ pc = "start"
    /\ file_prefix' = computePrefix(filename)
    /\ nextVerNum' = versionNumber + 1
    /\ idx' = 1
    /\ pc' = "retag"
    /\ UNCHANGED <<treeVars, nameVars, visVars, countVars, commitVars,
                   exportVars, messages, pre>>

(***************************************************************************)
(* The retag loops, lines 541-664.  Traversal is the order in which the    *)
(* loops reach the components and the bodies: each component of            *)
(* allComponents followed by its bodies (the root is skipped with its      *)
(* bodies), then the bodies of the root.                                   *)
(***************************************************************************)
BodyEntries(kind, bs) == [i \in DOMAIN bs |-> [kind |-> kind, id |-> bs[i]]]

RECURSIVE ComponentEntries(_, _)
ComponentEntries(d, i) ==
    IF i > Len(d.allComponents) THEN <<>>
    ELSE LET comp == d.allComponents[i]
         IN  (IF comp = rootComp
              THEN <<[kind |-> "comp", id |-> comp]>>
              ELSE <<[kind |-> "comp", id |-> comp]>>
                      \o BodyEntries("body", d.bRepBodies[comp]))
             \o ComponentEntries(d, i + 1)

Traversal(d) ==
    ComponentEntries(d, 1) \o BodyEntries("rootbody", d.bRepBodies[rootComp])

AtEntry(kind) ==
    /\ pc = "retag"
    /\ idx <= Len(Traversal(design))
    /\ Traversal(design)[idx].kind = kind

\* what body.name = new_name or comp.name = new_name may raise: the host's
\* refusal to rename (a RuntimeError naming the "root component") or
\* anything else
RootComponentError == "RuntimeError: root component"

OtherError == "RuntimeError"

\* the outer except of notify, lines 728-730: the message box shows the
\* traceback, which ends with the error
Failed(error) == IF error = RootComponentError
                 THEN "Failed to execute DPX Versioning: root component"
                 ELSE "Failed to execute DPX Versioning"

\* a variant of Abort that shows the message and goes on to the commit
Abort_GoesOn(error) ==
    /\ Report(Failed(error))
    /\ pc' = "comment"

Abort(error) ==
    /\ Report(Failed(error))
    /\ pc' = "done"

\* if comp.name: (line 549)
ComponentNamed(comp) == compName[comp] # <<>>

\* a variant of BodyNamed that lets a body without a name through
BodyNamed_Always(body) == TRUE

\* not (not body or not body.name), lines 595 and 636
BodyNamed(body) == bodyName[body] # <<>>

\* lines 542-589
RetagComponent ==
    /\ AtEntry("comp")
    /\ LET comp == Traversal(design)[idx].id
           current_name == compName[comp]
       IN  \/ /\ comp = rootComp
              /\ idx' = idx + 1
              /\ UNCHANGED <<nameVars, countVars, pc, messages>>
           \/ /\ comp # rootComp
              /\ ~ComponentNamed(comp)
              /\ idx' = idx + 1
              /\ UNCHANGED <<nameVars, countVars, pc, messages>>
           \/ /\ comp # rootComp
              /\ ComponentNamed(comp)
              /\ ~matches(current_name, file_prefix)
              /\ component_skipped_count' = component_skipped_count + 1
              /\ idx' = idx + 1
              /\ UNCHANGED <<nameVars, renamed_count, skipped_count,
                             component_renamed_count, debug_errors, pc,
                             messages>>
           \/ /\ comp # rootComp
              /\ ComponentNamed(comp)
              /\ matches(current_name, file_prefix)
              /\ \/ /\ compName' = [compName EXCEPT
                                      ![comp] = new_name(current_name, nextVerNum)]
                    /\ component_renamed_count' = component_renamed_count + 1
                    /\ idx' = idx + 1
                    /\ UNCHANGED <<bodyName, renamed_count, skipped_count,
                                   component_skipped_count, debug_errors, pc,
                                   messages>>
                 \/ \* RuntimeError naming the "root component": passed over
                    /\ debug_errors' = Append(debug_errors, comp)
                    /\ idx' = idx + 1
                    /\ UNCHANGED <<nameVars, renamed_count, skipped_count,
                                   component_renamed_count,
                                   component_skipped_count, pc, messages>>
                 \/ \* any other RuntimeError: re-raised
                    /\ debug_errors' = Append(debug_errors, comp)
                    /\ Abort(OtherError)
                    /\ UNCHANGED <<nameVars, renamed_count, skipped_count,
                                   component_renamed_count,
                                   component_skipped_count, idx>>
    /\ UNCHANGED <<treeVars, visVars, commitVars, exportVars,
                   file_prefix, nextVerNum, pre>>

\* a variant of RenameBody whose decision looks at the bodies renamed so
\* far: only the first matching body is renamed
RenameBody_OnlyFirst(body) ==
    LET current_name == bodyName[body]
    IN  \/ /\ ~BodyNamed(body)
           /\ idx' = idx + 1
           /\ UNCHANGED <<nameVars, countVars, pc, messages>>
        \/ /\ BodyNamed(body)
           /\ ~matches(current_name, file_prefix) \/ renamed_count > 0
           /\ skipped_count' = skipped_count + 1
           /\ idx' = idx + 1
           /\ UNCHANGED <<nameVars, renamed_count, component_renamed_count,
                          component_skipped_count, debug_errors, pc, messages>>
        \/ /\ BodyNamed(body)
           /\ matches(current_name, file_prefix)
           /\ renamed_count = 0
           /\ bodyName' = [bodyName EXCEPT
                             ![body] = new_name(current_name, nextVerNum)]
           /\ renamed_count' = renamed_count + 1
           /\ idx' = idx + 1
           /\ UNCHANGED <<compName, skipped_count, component_renamed_count,
                          component_skipped_count, debug_errors, pc, messages>>

\* the body of both body loops, lines 593-630 and 635-664
RenameBody(body) ==
    LET current_name == bodyName[body]
    IN  \/ /\ ~BodyNamed(body)
           /\ idx' = idx + 1
           /\ UNCHANGED <<nameVars, countVars, pc, messages>>
        \/ /\ BodyNamed(body)
           /\ ~matches(current_name, file_prefix)
           /\ skipped_count' = skipped_count + 1
           /\ idx' = idx + 1
           /\ UNCHANGED <<nameVars, renamed_count, component_renamed_count,
                          component_skipped_count, debug_errors, pc, messages>>
        \/ /\ BodyNamed(body)
           /\ matches(current_name, file_prefix)
           /\ \/ /\ bodyName' = [bodyName EXCEPT
                                   ![body] = new_name(current_name, nextVerNum)]
                 /\ renamed_count' = renamed_count + 1
                 /\ idx' = idx + 1
                 /\ UNCHANGED <<compName, skipped_count, component_renamed_count,
                                component_skipped_count, debug_errors, pc,
                                messages>>
              \/ \* no try around body.name = new_name: every error leaves notify
                 /\ \E error \in {RootComponentError, OtherError} : Abort(error)
                 /\ UNCHANGED <<nameVars, countVars, idx>>

RetagBody ==
    /\ AtEntry("body")
    /\ RenameBody(Traversal(design)[idx].id)
    /\ UNCHANGED <<treeVars, visVars, commitVars, exportVars,
                   file_prefix, nextVerNum, pre>>

RetagRootBody ==
    /\ AtEntry("rootbody")
    /\ RenameBody(Traversal(design)[idx].id)
    /\ UNCHANGED <<treeVars, visVars, commitVars, exportVars,
                   file_prefix, nextVerNum, pre>>

(***************************************************************************)
(* After the loops, lines 666-726: the two dialogs, then the commit when   *)
(* something was renamed, then the export for the Version + Export button. *)
(***************************************************************************)
total_renamed == renamed_count + component_renamed_count

AfterCommit == IF with_export THEN "export" ELSE "done"

\* a variant of ShowSummary that runs the export before the commit is reached
ShowSummary_ExportFirst ==
    /\ pc = "retag"
    /\ idx > Len(Traversal(design))
    /\ messages' = messages \o <<"DEBUG INFO", "DPX Versioning">>
    /\ pc' = IF with_export THEN "export"
             ELSE IF total_renamed > 0 THEN "comment" ELSE "done"
    /\ UNCHANGED <<treeVars, nameVars, visVars, countVars, commitVars,
                   exportVars, file_prefix, nextVerNum, idx, pre>>

\* a variant of ShowSummary that commits whatever was renamed
ShowSummary_AlwaysCommits ==
    /\ pc = "retag"
    /\ idx > Len(Traversal(design))
    /\ messages' = messages \o <<"DEBUG INFO", "DPX Versioning">>
    /\ pc' = "comment"
    /\ UNCHANGED <<treeVars, nameVars, visVars, countVars, commitVars,
                   exportVars, file_prefix, nextVerNum, idx, pre>>

ShowSummary ==
    /\ pc = "retag"
    /\ idx > Len(Traversal(design))
    /\ messages' = messages \o <<"DEBUG INFO", "DPX Versioning">>
    /\ pc' = IF total_renamed > 0 THEN "comment" ELSE AfterCommit
    /\ UNCHANGED <<treeVars, nameVars, visVars, countVars, commitVars,
                   exportVars, file_prefix, nextVerNum, idx, pre>>

IsWordChar(c) ==
    \/ \E i \in DOMAIN UpperChars : UpperChars[i] = c
    \/ \E i \in DOMAIN LowerChars : LowerChars[i] = c
    \/ IsDigit(c)
    \/ c = "_"

IsSpace(c) == c \in {" ", "\t", "\n", "\r"}

\* str.strip()
RECURSIVE strip(_)
strip(s) ==
    IF s = <<>> THEN s
    ELSE IF IsSpace(Head(s)) THEN strip(Tail(s))
    ELSE IF IsSpace(s[Len(s)]) THEN strip(SubSeq(s, 1, Len(s) - 1))
    ELSE s

\* re.sub(r'[^\w\s\-\.\,\!\?\(\)]', '', user_comment)
sanitized_comment(user_comment) ==
    SelectSeq(user_comment,
              LAMBDA c : \/ IsWordChar(c)
                         \/ IsSpace(c)
                         \/ c \in {"-", ".", ",", "!", "?", "(", ")"})

Comments == { <<>>, <<" ">>, <<"#">>, <<"f","i","x","#","2">> }

\* default_commit_message, line 688
default_commit_message ==
    [version |-> nextVerNum, total |-> total_renamed, prefix |-> file_prefix]

\* lines 691-710: commit_message holds what is appended to the default
\* message, <<>> when the default message is used alone
PromptComment ==
    /\ pc = "comment"
    /\ \/ \E text \in Comments :
             commit_message' = sanitized_comment(strip(text))
       \/ \* Cancel, or ui.inputBox raised
          commit_message' = <<>>
    /\ pc' = "save"
    /\ UNCHANGED <<treeVars, nameVars, visVars, countVars, saveLog,
                   versionNumber, exportVars, file_prefix, nextVerNum, idx,
                   messages, pre>>

\* doc.save(message): the host stores a new version or raises
Save(comment, ok) ==
    /\ saveLog' = Append(saveLog, [default |-> default_commit_message,
                                   comment |-> comment, ok |-> ok])
    /\ versionNumber' = IF ok THEN versionNumber + 1 ELSE versionNumber

\* lines 713-716
SaveDocument ==
    /\ pc = "save"
    /\ \/ /\ Save(commit_message, TRUE)
          /\ Report("Document saved!")
          /\ pc' = AfterCommit
       \/ /\ Save(commit_message, FALSE)
          /\ pc' = "save_default"
          /\ UNCHANGED messages
    /\ UNCHANGED <<treeVars, nameVars, visVars, countVars, commit_message,
                   exportVars, file_prefix, nextVerNum, idx, pre>>

\* a variant of SaveDefault that ends the invocation when the save fails
SaveDefault_FailureEnds ==
    /\ pc = "save_default"
    /\ \/ /\ Save(<<>>, TRUE)
          /\ Report("Document saved! (Note: Custom comment could not be saved)")
          /\ pc' = AfterCommit
       \/ /\ Save(<<>>, FALSE)
          /\ Report("Bodies renamed but failed to save document")
          /\ pc' = "done"
    /\ UNCHANGED <<treeVars, nameVars, visVars, countVars, commit_message,
                   exportVars, file_prefix, nextVerNum, idx, pre>>

\* a variant of SaveDefault that tries again when the save fails
SaveDefault_Retries ==
    /\ pc = "save_default"
    /\ \/ /\ Save(<<>>, TRUE)
          /\ Report("Document saved! (Note: Custom comment could not be saved)")
          /\ pc' = AfterCommit
       \/ /\ Len(saveLog) < 3
          /\ Save(<<>>, FALSE)
          /\ UNCHANGED <<messages, pc>>
    /\ UNCHANGED <<treeVars, nameVars, visVars, countVars, commit_message,
                   exportVars, file_prefix, nextVerNum, idx, pre>>

\* lines 717-722
SaveDefault ==
    /\ pc = "save_default"
    /\ \/ /\ Save(<<>>, TRUE)
          /\ Report("Document saved! (Note: Custom comment could not be saved)")
       \/ /\ Save(<<>>, FALSE)
          /\ Report("Bodies renamed but failed to save document")
    /\ pc' = AfterCommit
    /\ UNCHANGED <<treeVars, nameVars, visVars, countVars, commit_message,
                   exportVars, file_prefix, nextVerNum, idx, pre>>

(***************************************************************************)
(* export_bodies, lines 96-149: what is exported.                          *)
(***************************************************************************)
\* lines 103-107
tagged_components ==
    SelectSeq(design.allComponents,
              LAMBDA comp : /\ comp # rootComp
                            /\ matches_prefix(compName[comp], file_prefix))

\* the bodies in the order of lines 103-117: per component, then the root's
RECURSIVE BodiesFrom(_, _)
BodiesFrom(d, i) ==
    IF i > Len(d.allComponents) THEN d.bRepBodies[rootComp]
    ELSE (IF d.allComponents[i] = rootComp THEN <<>>
          ELSE d.bRepBodies[d.allComponents[i]]) \o BodiesFrom(d, i + 1)

\* lines 110-117
tagged_bodies ==
    SelectSeq(BodiesFrom(design, 1),
              LAMBDA body : matches_prefix(bodyName[body], file_prefix))

\* lines 128-135: one item per occurrence of the component
OccurrenceItems(comp) ==
    LET occs == SelectSeq(design.allOccurrences,
                          LAMBDA occ : design.component[occ] = comp)
    IN  [i \in DOMAIN occs |->
            [type |-> "component", obj |-> occs[i], name |-> compName[comp]]]

RECURSIVE ComponentItems(_)
ComponentItems(comps) ==
    IF comps = <<>> THEN <<>>
    ELSE OccurrenceItems(Head(comps)) \o ComponentItems(Tail(comps))

\* a variant of parent_is_tagged without the rootComp test
parent_is_tagged_NoRootTest(body) ==
    matches_prefix(compName[design.parentComponent[body]], file_prefix)

\* lines 140-141
parent_is_tagged(body) ==
    LET parent_comp == design.parentComponent[body]
    IN  /\ parent_comp # rootComp
        /\ matches_prefix(compName[parent_comp], file_prefix)

\* lines 138-149
BodyItems ==
    LET kept == SelectSeq(tagged_bodies, LAMBDA body : ~parent_is_tagged(body))
    IN  [i \in DOMAIN kept |->
            [type |-> "body", obj |-> kept[i], name |-> bodyName[kept[i]]]]

\* items_to_export once both loops are through
Items == ComponentItems(tagged_components) \o BodyItems

\* original_visibility, lines 130 and 144: entityToken -> isLightBulbOn
CapturedVisibility(items) ==
    [token \in {items[i].obj : i \in DOMAIN items} |->
        IF token \in DOMAIN occVis THEN occVis[token] ELSE bodyVis[token]]

(***************************************************************************)
(* export_bodies, lines 151-196: the preview and the folder prompt.        *)
(***************************************************************************)
ExportPreview ==
    /\ pc = "export"
    /\ items_to_export' = Items
    /\ original_visibility' = CapturedVisibility(Items)
    /\ \/ /\ Len(Items) = 0
          /\ Report("No tagged items found to export.")
          /\ pc' = "done"
       \/ /\ Len(Items) > 0
          /\ \/ pc' = "folder"        \* Yes
             \/ pc' = "done"          \* No
          /\ UNCHANGED messages
    /\ UNCHANGED <<treeVars, nameVars, visVars, countVars, commitVars,
                   itemIdx, visibility_changes, original_body_state,
                   exported_count, failed_items, execLog,
                   file_prefix, nextVerNum, idx, pre>>

\* a variant of ExportFolder that goes on after the folder dialog was cancelled
ExportFolder_IgnoresCancel ==
    /\ pc = "folder"
    /\ \/ /\ pc' = "item"
          /\ itemIdx' = 1
          /\ UNCHANGED messages
       \/ /\ Report("Export cancelled.")
          /\ pc' = "item"
          /\ itemIdx' = 1
    /\ UNCHANGED <<treeVars, nameVars, visVars, countVars, commitVars,
                   items_to_export, original_visibility, visibility_changes,
                   original_body_state, exported_count, failed_items, execLog,
                   file_prefix, nextVerNum, idx, pre>>

ExportFolder ==
    /\ pc = "folder"
    /\ \/ /\ pc' = "item"             \* a folder was chosen
          /\ itemIdx' = 1
          /\ UNCHANGED messages
       \/ /\ Report("Export cancelled.")
          /\ pc' = "done"
          /\ UNCHANGED itemIdx
    /\ UNCHANGED <<treeVars, nameVars, visVars, countVars, commitVars,
                   items_to_export, original_visibility, visibility_changes,
                   original_body_state, exported_count, failed_items, execLog,
                   file_prefix, nextVerNum, idx, pre>>

(***************************************************************************)
(* export_bodies, lines 203-299: one item of the export loop.  Arrange     *)
(* sets the visibility the mesh export is to see; Execute is               *)
(* exportMgr.execute with what follows it.                                 *)
(***************************************************************************)
\* isLightBulbOn a body of the exported component is given, lines 223-236
bodyShown(body) == ~matches_prefix(bodyName[body], file_prefix)

\* a variant of childOccShown that hides no child occurrence
childOccShown_Always(childOcc) == TRUE

\* isLightBulbOn a child occurrence is given, lines 239-251
childOccShown(childOcc) ==
    ~matches_prefix(compName[design.component[childOcc]], file_prefix)

\* the entries appended to visibility_changes for the objects whose
\* isLightBulbOn is changed: vis is what they have, shown what they are given
Changes(type, objs, vis, shown) ==
    LET changed == SelectSeq(objs, LAMBDA o : vis[o] # shown[o])
    IN  [i \in DOMAIN changed |->
            [type |-> type, obj |-> changed[i], original_state |-> vis[changed[i]]]]

ArrangeComponent(occ) ==
    LET comp     == design.component[occ]
        bodies   == design.bRepBodies[comp]
        children == childOccurrences(design, occ)
    IN  /\ visibility_changes' =
              Changes("occ", <<occ>>, occVis, [o \in {occ} |-> TRUE])
              \o Changes("body", bodies, bodyVis,
                         [b \in SeqToSet(bodies) |-> bodyShown(b)])
              \o Changes("childOcc", children, occVis,
                         [o \in SeqToSet(children) |-> childOccShown(o)])
        /\ occVis' = [o \in DOMAIN occVis |->
                        IF o = occ THEN TRUE
                        ELSE IF o \in SeqToSet(children) THEN childOccShown(o)
                        ELSE occVis[o]]
        /\ bodyVis' = [b \in DOMAIN bodyVis |->
                        IF b \in SeqToSet(bodies) THEN bodyShown(b)
                        ELSE bodyVis[b]]
        /\ UNCHANGED original_body_state

ArrangeBody(body) ==
    /\ original_body_state' = bodyVis[body]
    /\ bodyVis' = [bodyVis EXCEPT ![body] = TRUE]
    /\ UNCHANGED <<occVis, visibility_changes>>

ExportArrange ==
    /\ pc = "item"
    /\ itemIdx <= Len(items_to_export)
    /\ LET item == items_to_export[itemIdx]
       IN  \/ /\ item.type = "component"
              /\ ArrangeComponent(item.obj)
           \/ /\ item.type = "body"
              /\ ArrangeBody(item.obj)
    /\ pc' = "emit"
    /\ UNCHANGED <<treeVars, nameVars, countVars, commitVars, items_to_export,
                   original_visibility, itemIdx, exported_count, failed_items,
                   execLog, file_prefix, nextVerNum, idx, messages, pre>>

\* what createSTLExportOptions is given: the component or the body
ExportTarget(item) ==
    IF item.type = "component" THEN design.component[item.obj] ELSE item.obj

Logged(item, ok) ==
    execLog' = Append(execLog, [item |-> itemIdx, target |-> ExportTarget(item),
                                filename |-> item.name, ok |-> ok])

\* lines 266-272 and 296: after a successful execute
RestoreItem(item) ==
    IF item.type = "component"
    THEN /\ occVis' = [o \in DOMAIN occVis |->
                        IF \E i \in DOMAIN visibility_changes :
                              /\ visibility_changes[i].obj = o
                              /\ visibility_changes[i].type \in {"occ", "childOcc"}
                        THEN (CHOOSE c \in SeqToSet(visibility_changes) :
                                 c.obj = o).original_state
                        ELSE occVis[o]]
         /\ bodyVis' = [b \in DOMAIN bodyVis |->
                        IF \E i \in DOMAIN visibility_changes :
                              /\ visibility_changes[i].obj = b
                              /\ visibility_changes[i].type = "body"
                        THEN (CHOOSE c \in SeqToSet(visibility_changes) :
                                 c.obj = b).original_state
                        ELSE bodyVis[b]]
    ELSE /\ bodyVis' = [bodyVis EXCEPT ![item.obj] = original_body_state]
         /\ UNCHANGED occVis

\* lines 262-263 with 266-272, or 292-293 with 296
ExecuteOk(item) ==
    /\ Logged(item, TRUE)
    /\ exported_count' = exported_count + 1
    /\ RestoreItem(item)
    /\ itemIdx' = itemIdx + 1
    /\ pc' = "item"
    /\ UNCHANGED <<failed_items, messages>>

\* a variant of ExecuteFails with the try around the loop: the first
\* failure ends the run at the outer except (lines 323-324)
ExecuteFails_LeavesLoop(item) ==
    /\ Logged(item, FALSE)
    /\ Report("Export failed")
    /\ pc' = "done"
    /\ UNCHANGED <<exported_count, failed_items, itemIdx, visVars>>

\* lines 298-299: execute raised, the loop goes on with the next item
ExecuteFails(item) ==
    /\ Logged(item, FALSE)
    /\ failed_items' = Append(failed_items, item.name)
    /\ itemIdx' = itemIdx + 1
    /\ pc' = "item"
    /\ UNCHANGED <<exported_count, visVars, messages>>

ExportExecute ==
    /\ pc = "emit"
    /\ \/ ExecuteOk(items_to_export[itemIdx])
       \/ ExecuteFails(items_to_export[itemIdx])
    /\ UNCHANGED <<treeVars, nameVars, countVars, commitVars, items_to_export,
                   original_visibility, visibility_changes, original_body_state,
                   file_prefix, nextVerNum, idx, pre>>

\* lines 302-310: the occurrences of the component items get their
\* original_visibility back
RestoredOccurrences ==
    [o \in DOMAIN occVis |->
        IF \E i \in DOMAIN items_to_export :
              /\ items_to_export[i].type = "component"
              /\ items_to_export[i].obj = o
              /\ o \in DOMAIN original_visibility
        THEN original_visibility[o]
        ELSE occVis[o]]

\* lines 301-321
ExportFinish ==
    /\ pc = "item"
    /\ itemIdx > Len(items_to_export)
    /\ occVis' = RestoredOccurrences
    /\ Report("DPX Export Complete")
    /\ pc' = "done"
    /\ UNCHANGED <<treeVars, nameVars, bodyVis, countVars, commitVars,
                   exportVars, file_prefix, nextVerNum, idx, pre>>

(***************************************************************************)
(* Specifications                                                          *)
(***************************************************************************)
Next ==
    \/ PreconditionFails
    \/ Begin
    \/ RetagComponent
    \/ RetagBody
    \/ RetagRootBody
    \/ ShowSummary
    \/ PromptComment
    \/ SaveDocument
    \/ SaveDefault
    \/ ExportPreview
    \/ ExportFolder
    \/ ExportArrange
    \/ ExportExecute
    \/ ExportFinish

Spec == Init /\ [][Next]_vars

(***************************************************************************)
(* export_bodies(design, file_prefix, ui) on its own: called on a tree     *)
(* the retag pass has been over (matching names carry the suffix of        *)
(* nextVerNum, or kept their name where the host refused the rename), with *)
(* any visibility.                                                         *)
(***************************************************************************)
ExportComponentNames ==
    {new_name(N_DPX_Arm_v10, MaxVersion + 1), N_dpx_lever, N_std_screw}

ExportBodyNames ==
    {new_name(N_dpx_bracket_v2, MaxVersion + 1), N_std_screw}

InitExport ==
    /\ design \in Designs
    /\ versionNumber = MaxVersion
    /\ with_export = TRUE
    /\ compName \in NamedComponents(design, ExportComponentNames)
    /\ bodyName \in [Bodies(design) -> ExportBodyNames]
    /\ occVis \in [Occurrences(design) -> BOOLEAN]
    /\ bodyVis \in [Bodies(design) -> BOOLEAN]
    /\ Snapshot
    /\ pc = "export"
    /\ filename \in DocNames
    /\ file_prefix = computePrefix(filename)
    /\ nextVerNum = MaxVersion + 1
    /\ idx = 0
    /\ renamed_count = 0
    /\ skipped_count = 0
    /\ component_renamed_count = 0
    /\ component_skipped_count = 0
    /\ commit_message = <<>>
    /\ messages = <<>>
    /\ debug_errors = <<>>
    /\ saveLog = <<>>
    /\ items_to_export = <<>>
    /\ original_visibility = <<>>
    /\ itemIdx = 0
    /\ visibility_changes = <<>>
    /\ original_body_state = FALSE
    /\ exported_count = 0
    /\ failed_items = <<>>
    /\ execLog = <<>>

NextExport ==
    \/ ExportPreview
    \/ ExportFolder
    \/ ExportArrange
    \/ ExportExecute
    \/ ExportFinish

SpecExport == InitExport /\ [][NextExport]_vars

(***************************************************************************)
(* The name functions on their own: the retag pass of one invocation over  *)
(* a document whose root body carries any name built from a few tokens,    *)
(* or whose document name is any short string.                             *)
(***************************************************************************)
MaxTokens == 5

MaxDocLen == 5

\* the tokens names are built from: a letter, a separator, the start of a
\* version suffix and a digit; with an upper-case letter, with an
\* upper-case V and with a dash as the separator
TokenSets ==
    { << <<"x">>, <<"_">>, <<"_","v">>, <<"1">> >>,
      << <<"X">>, <<"_">>, <<"_","v">>, <<"1">> >>,
      << <<"x">>, <<"_">>, <<"_","V">>, <<"1">> >>,
      << <<"x">>, <<"-">>, <<"_","v">>, <<"1">> >> }

RECURSIVE Spell(_, _)
Spell(tokens, word) ==
    IF word = <<>> THEN <<>>
    ELSE tokens[Head(word)] \o Spell(tokens, Tail(word))

\* every name of at most MaxTokens tokens (the empty name included)
Names ==
    { Spell(tokens, word) :
        tokens \in TokenSets,
        word \in UNION { [1..n -> 1..4] : n \in 0..MaxTokens } }

\* every document name of 1 to MaxDocLen characters over a, B and _
DocStrings == UNION { [1..n -> {"a", "B", "_"}] : n \in 1..MaxDocLen }

F_x_job == <<"x","_","j","o","b">>

\* a root component with one body r and nothing placed under it
DesignRootOnly ==
    [ allComponents   |-> <<"root">>,
      allOccurrences  |-> <<>>,
      component       |-> <<>>,
      parentOcc       |-> <<>>,
      bRepBodies      |-> [root |-> <<"r">>],
      parentComponent |-> [r |-> "root"] ]

InitNames ==
    /\ design = DesignRootOnly
    /\ versionNumber = MaxVersion
    /\ with_export = FALSE
    /\ compName = [c \in Components(design) |-> N_root]
    /\ \/ /\ filename = F_x_job
          /\ \E name \in Names : bodyName = [r |-> name]
       \/ /\ filename \in DocStrings
          /\ bodyName = [r |-> N_dpx_lever]
    /\ occVis = [o \in Occurrences(design) |-> TRUE]
    /\ bodyVis = [b \in Bodies(design) |-> TRUE]
    /\ Snapshot
    /\ Blank

NextNames ==
    \/ Begin
    \/ RetagComponent
    \/ RetagRootBody
    \/ ShowSummary

SpecNames == InitNames /\ [][NextNames]_vars

(***************************************************************************)
(* Properties of export_bodies (checked under SpecExport)                  *)
(***************************************************************************)
\* export_bodies went through its loop and showed its summary
ExportReturned ==
    /\ pc = "done"
    /\ messages # <<>>
    /\ messages[Len(messages)] = "DPX Export Complete"

VisibilityAsBefore ==
    /\ occVis = pre.occVis
    /\ bodyVis = pre.bodyVis

AtEmit(type) ==
    /\ pc = "emit"
    /\ items_to_export[itemIdx].type = type

Tagged(name) == matches_prefix(name, file_prefix)

\* C1: when the export run returns, every occurrence and every body has
\* the isLightBulbOn it had before the run, whichever emit steps failed.
C1_VisibilityRestoredAfterRun == pc = "done" => VisibilityAsBefore

\* C2: a failing emit does not stop the run: every item of the export list
\* reaches its emit step, exactly once and in order; exported_count is the
\* number of emits that succeeded; failed_items holds one entry per failed
\* emit, the item's name, in order.
FailedNames ==
    LET failed == SelectSeq(execLog, LAMBDA e : ~e.ok)
    IN  [i \in DOMAIN failed |-> failed[i].filename]

C2_FailureDoesNotStopRun ==
    /\ exported_count = Cardinality({i \in DOMAIN execLog : execLog[i].ok})
    /\ failed_items = FailedNames
    /\ \A i \in DOMAIN execLog : execLog[i].item = i
    /\ pc = "item" => Len(execLog) = itemIdx - 1
    /\ pc = "done" /\ execLog # <<>> => Len(execLog) = Len(items_to_export)

C2_Witness ==
    /\ ExportReturned
    /\ \E i, j \in DOMAIN execLog : i < j /\ ~execLog[i].ok /\ execLog[j].ok
    /\ \E i, j \in DOMAIN execLog : i < j /\ ~execLog[i].ok /\ ~execLog[j].ok

\* C3: when the mesh export is invoked for a component item, its
\* occurrence is shown, every body of the component and every child
\* occurrence whose name matches the prefix is hidden, and every one
\* whose name does not match is shown.
C3_ArrangedAtEmit ==
    AtEmit("component") =>
        LET occ  == items_to_export[itemIdx].obj
            comp == design.component[occ]
        IN  /\ occVis[occ]
            /\ \A b \in SeqToSet(design.bRepBodies[comp]) :
                  bodyVis[b] = ~Tagged(bodyName[b])
            /\ \A o \in Occurrences(design) :
                  design.parentOcc[o] = occ =>
                      occVis[o] = ~Tagged(compName[design.component[o]])

C3_Witness ==
    /\ AtEmit("component")
    /\ LET occ  == items_to_export[itemIdx].obj
           comp == design.component[occ]
       IN  /\ ~pre.occVis[occ]
           /\ \E b \in SeqToSet(design.bRepBodies[comp]) :
                 ~Tagged(bodyName[b]) /\ ~pre.bodyVis[b]
           /\ \E o \in Occurrences(design) :
                 /\ design.parentOcc[o] = occ
                 /\ Tagged(compName[design.component[o]])
                 /\ pre.occVis[o]

\* C4: a matching body whose owning component matches is no export item
\* of its own and is shown when the mesh export is invoked for its
\* owning component.
C4_TaggedBodyExportedWithOwner ==
    /\ \A i \in DOMAIN items_to_export :
          items_to_export[i].type = "body" =>
              ~( /\ design.parentComponent[items_to_export[i].obj] # rootComp
                 /\ Tagged(compName[design.parentComponent[items_to_export[i].obj]]) )
    /\ AtEmit("component") =>
          \A b \in SeqToSet(design.bRepBodies[
                      design.component[items_to_export[itemIdx].obj]]) :
              Tagged(bodyName[b]) => bodyVis[b]

\* C5: every direct child hidden during a component item's emit because it
\* matches the prefix has an emit of its own later in the same run.
HiddenChildren(comp, occ) ==
    {b \in SeqToSet(design.bRepBodies[comp]) : Tagged(bodyName[b])}
    \cup {design.component[o] : o \in
            {c \in Occurrences(design) :
                /\ design.parentOcc[c] = occ
                /\ Tagged(compName[design.component[c]])}}

C5_HiddenChildExportedLater ==
    ExportReturned =>
        \A p \in DOMAIN execLog :
            items_to_export[execLog[p].item].type = "component" =>
                \A child \in HiddenChildren(execLog[p].target,
                                            items_to_export[execLog[p].item].obj) :
                    \E q \in DOMAIN execLog : q > p /\ execLog[q].target = child

\* C6: the export selection holds a node exactly when its name matches the
\* prefix, it is not the root component and, for a body, its owning
\* component is the root or does not match.
Selected == {ExportTarget(items_to_export[i]) : i \in DOMAIN items_to_export}

C7_NoDuplicateItems ==
    \A i, j \in DOMAIN items_to_export :
        i # j => ExportTarget(items_to_export[i]) # ExportTarget(items_to_export[j])

\* C8: when the loop turns to the next export item, every occurrence and
\* every body has the isLightBulbOn it had before the run, also after an
\* emit that failed.
C8_BaselineAtNextItem ==
    (pc = "item" /\ itemIdx <= Len(items_to_export)) => VisibilityAsBefore

(***************************************************************************)
(* Properties of the retag pass (checked under Spec)                       *)
(***************************************************************************)
\* both retag loops ran to their end: the summary dialog was shown
RetagPassed == \E i \in DOMAIN messages : messages[i] = "DPX Versioning"

NonRootComponents == Components(design) \ {rootComp}

\* the name a matching node is to carry after the pass
Retagged(old) == baseName(old) \o <<"_", "v">> \o IntToStr(pre.versionNumber + 1)

N_dpx_lever_v4 == <<"d","p","x","_","l","e","v","e","r","_","v","4">>

N_dpx_bracket_v4 == <<"d","p","x","_","b","r","a","c","k","e","t","_","v","4">>

\* C9: after a retag pass with nextVersion = currentVersionNumber + 1 in
\* which no rename failed, every non-root component and every body whose
\* name matched is named stripVersion(old name) + "_v" + nextVersion,
\* every other node keeps its name, and the root component keeps its name.
C9_RetagNames ==
    (RetagPassed /\ debug_errors = <<>>) =>
        /\ \A c \in NonRootComponents :
              compName[c] = IF Tagged(pre.compName[c])
                            THEN Retagged(pre.compName[c])
                            ELSE pre.compName[c]
        /\ \A b \in Bodies(design) :
              bodyName[b] = IF Tagged(pre.bodyName[b])
                            THEN Retagged(pre.bodyName[b])
                            ELSE pre.bodyName[b]
        /\ compName[rootComp] = pre.compName[rootComp]

C9_Witness ==
    /\ RetagPassed
    /\ debug_errors = <<>>
    /\ pre.versionNumber = 3
    /\ design = DesignPlacedTwice
    /\ pre.compName["A"] = N_std_screw      /\ compName["A"] = N_std_screw
    /\ pre.bodyName["r"] = N_dpx_bracket_v2 /\ bodyName["r"] = N_dpx_bracket_v4
    /\ pre.bodyName["a"] = N_dpx_lever      /\ bodyName["a"] = N_dpx_lever_v4
    /\ Tagged(pre.compName[rootComp])

\* C10 as stated: when a retag pass completes, every non-root component is
\* counted once, as renamed when its name matches and as skipped when it
\* does not; every body with a non-empty name likewise; the root and the
\* bodies without a name are counted nowhere.
C10_EveryComponentCounted ==
    RetagPassed =>
        /\ component_renamed_count =
              Cardinality({c \in NonRootComponents : Tagged(pre.compName[c])})
        /\ component_skipped_count =
              Cardinality({c \in NonRootComponents : ~Tagged(pre.compName[c])})
        /\ renamed_count =
              Cardinality({b \in Bodies(design) :
                              pre.bodyName[b] # <<>> /\ Tagged(pre.bodyName[b])})
        /\ skipped_count =
              Cardinality({b \in Bodies(design) :
                              pre.bodyName[b] # <<>> /\ ~Tagged(pre.bodyName[b])})

\* C10 as amended: when a retag pass completes, every non-root component
\* with a non-empty name whose rename the host did not refuse is counted
\* once, as renamed when its name matches and as skipped when it does not;
\* a component with an empty name or a refused rename is counted nowhere;
\* every body with a non-empty name is counted once, as renamed or as
\* skipped; the root and the bodies without a name are counted nowhere.
C10_NamedComponentsCounted ==
    RetagPassed =>
        /\ component_renamed_count =
              Cardinality({c \in NonRootComponents :
                              /\ pre.compName[c] # <<>>
                              /\ Tagged(pre.compName[c])
                              /\ c \notin SeqToSet(debug_errors)})
        /\ component_skipped_count =
              Cardinality({c \in NonRootComponents :
                              /\ pre.compName[c] # <<>>
                              /\ ~Tagged(pre.compName[c])})
        /\ renamed_count =
              Cardinality({b \in Bodies(design) :
                              pre.bodyName[b] # <<>> /\ Tagged(pre.bodyName[b])})
        /\ skipped_count =
              Cardinality({b \in Bodies(design) :
                              pre.bodyName[b] # <<>> /\ ~Tagged(pre.bodyName[b])})

C10_Witness ==
    /\ RetagPassed
    /\ design = DesignNested
    /\ pre.compName["A"] = <<>>
    /\ debug_errors = <<"B">>
    /\ pre.bodyName["a"] = <<>>
    /\ renamed_count = 1
    /\ component_renamed_count + component_skipped_count = 0

(***************************************************************************)
(* Properties of the name functions (checked under SpecNames)              *)
(***************************************************************************)
\* the name of the root body, before and after the pass
NamesSeen == {pre.bodyName["r"], bodyName["r"]}

\* C11: stripping the version suffix is idempotent: for every name N,
\* baseName(baseName(N)) = baseName(N), also when N ends in several
\* stacked suffixes such as x_v1_v1.
C11_StripIdempotent ==
    \A N \in NamesSeen : baseName(baseName(N)) = baseName(N)

\* the places where a name ends in _v and one or more digits
SuffixStarts(N) ==
    {p \in 1..(Len(N) - 2) :
        /\ N[p] = "_"
        /\ N[p + 1] = "v"
        /\ \A j \in (p + 2)..Len(N) : IsDigit(N[j])}

EndsInSuffix(N) == SuffixStarts(N) # {}

BeforeSuffix(N) == SubSeq(N, 1, (CHOOSE p \in SuffixStarts(N) : TRUE) - 1)

\* C12 as stated: a name has a version suffix iff it ends in _v and one or
\* more digits; its base name is then everything before the suffix, also
\* when nothing precedes the suffix (as in _v1), and otherwise the base
\* name is the whole name.
C12_SuffixAlsoAlone ==
    \A N \in NamesSeen :
        baseName(N) = IF EndsInSuffix(N) THEN BeforeSuffix(N) ELSE N

\* C12, amended: a name has a version suffix iff it ends in _v and one or
\* more digits and at least one character precedes the _v; its base name is
\* then everything before the suffix, and otherwise (also for a name that
\* is a suffix and nothing else) the base name is the whole name.
C12_SuffixAfterBase ==
    \A N \in NamesSeen :
        baseName(N) = IF EndsInSuffix(N) /\ BeforeSuffix(N) # <<>>
                      THEN BeforeSuffix(N)
                      ELSE N

\* the pass stripped x__v1 to x_ and left x_v1x whole on another run
C12_Witness ==
    /\ RetagPassed
    /\ pre.bodyName["r"] = <<"x","_","_","v","1">>
    /\ bodyName["r"] = <<"x","_","_","v","1","0">>
    /\ baseName(<<"x","_","v","1","x">>) = <<"x","_","v","1","x">>

VersionsTried == {0, versionNumber + 1}

\* C13 as stated: for every base name B without a trailing suffix, the
\* empty base name included, and every version V, stripping
\* new_name(B, V) gives B back.
C13_RoundTripAlsoEmpty ==
    \A B \in NamesSeen : \A V \in VersionsTried :
        ~EndsInSuffix(B) => baseName(new_name(B, V)) = B

\* C13, amended: for every non-empty base name B without a trailing
\* suffix and every version V, stripping new_name(B, V) gives B back.
C13_RoundTrip ==
    \A B \in NamesSeen : \A V \in VersionsTried :
        (B # <<>> /\ ~EndsInSuffix(B)) => baseName(new_name(B, V)) = B

C13_Witness ==
    /\ RetagPassed
    /\ pre.bodyName["r"] = <<"x","_","1">>
    /\ bodyName["r"] = <<"x","_","1","_","v","1","0">>
    /\ baseName(bodyName["r"]) = pre.bodyName["r"]

\* the document name up to its first _ (the whole name without one)
HeadOfName(f) ==
    IF \E i \in DOMAIN f : f[i] = "_"
    THEN LET u == CHOOSE i \in DOMAIN f :
                     /\ f[i] = "_"
                     /\ \A j \in 1..(i - 1) : f[j] # "_"
         IN  [i \in 1..(u - 1) |-> f[i]]
    ELSE f

FirstThree(f) == [i \in 1..(IF Len(f) < 3 THEN Len(f) ELSE 3) |-> f[i]]

Lowered(f) == [i \in DOMAIN f |-> LowerChar(f[i])]

StartsWithPrefix(N, prefix) ==
    \/ startswith(Lowered(N), prefix)
    \/ startswith(Lowered(N), [i \in DOMAIN prefix |->
                                 IF prefix[i] = "_" THEN "-" ELSE prefix[i]])

\* the base name as C12 (amended) describes it
StrippedName(N) ==
    IF EndsInSuffix(N) /\ BeforeSuffix(N) # <<>> THEN BeforeSuffix(N) ELSE N

\* C15 as stated: matches_prefix is true exactly when the lower-cased base
\* name starts with the prefix or its dash variant, the result is the same
\* whatever the letter case of the name, and an empty name never matches.
C15_MatchesWhateverCase ==
    \A N \in NamesSeen :
        LET prefix == computePrefix(filename)
        IN  /\ matches_prefix(N, prefix) =
                  (N # <<>> /\ StartsWithPrefix(StrippedName(N), prefix))
            /\ matches_prefix(N, prefix) = matches_prefix(Lowered(N), prefix)

\* C15, amended: matches_prefix is true exactly when the lower-cased base
\* name starts with the prefix or its dash variant, and an empty name never
\* matches; the result is the same for the lower-cased name unless
\* lower-casing makes a version suffix of the name's ending (the suffix
\* needs a lower-case v).
C15_Matches ==
    \A N \in NamesSeen :
        LET prefix == computePrefix(filename)
        IN  /\ matches_prefix(N, prefix) =
                  (N # <<>> /\ StartsWithPrefix(StrippedName(N), prefix))
            /\ (EndsInSuffix(Lowered(N)) => EndsInSuffix(N)) =>
                  matches_prefix(N, prefix) = matches_prefix(Lowered(N), prefix)

\* the pass retagged X_1, which matches x_ only through lower()
C15_Witness ==
    /\ RetagPassed
    /\ file_prefix = <<"x","_">>
    /\ pre.bodyName["r"] = <<"X","_","1">>
    /\ matches_prefix(pre.bodyName["r"], file_prefix)
    /\ bodyName["r"] = <<"X","_","1","_","v","1","0">>

(***************************************************************************)
(* The button pressed again: notify runs once more on the document the     *)
(* earlier invocation left, with fresh locals.  pre.passes keeps, for each *)
(* earlier invocation, its nextVerNum and whether its retag pass went      *)
(* through with no rename refused.                                         *)
(***************************************************************************)
MaxInvocations == 2

Again ==
    /\ pc = "done"
    /\ Len(pre.passes) + 1 < MaxInvocations
    /\ pre' = [compName |-> compName, bodyName |-> bodyName,
               occVis |-> occVis, bodyVis |-> bodyVis,
               versionNumber |-> versionNumber,
               passes |-> Append(pre.passes,
                                 [nextVerNum |-> nextVerNum,
                                  clean |-> RetagPassed /\ debug_errors = <<>>])]
    /\ pc' = "start"
    /\ file_prefix' = <<>>
    /\ nextVerNum' = 0
    /\ idx' = 0
    /\ renamed_count' = 0
    /\ skipped_count' = 0
    /\ component_renamed_count' = 0
    /\ component_skipped_count' = 0
    /\ commit_message' = <<>>
    /\ messages' = <<>>
    /\ debug_errors' = <<>>
    /\ saveLog' = <<>>
    /\ UNCHANGED <<treeVars, nameVars, visVars, versionNumber, exportVars>>

\* the DPX Versioning button (no export) on the document of DesignPlacedTwice
InitAgain ==
    /\ Init
    /\ design = DesignPlacedTwice
    /\ ~with_export

NextAgain ==
    \/ PreconditionFails
    \/ Begin
    \/ RetagComponent
    \/ RetagBody
    \/ RetagRootBody
    \/ ShowSummary
    \/ PromptComment
    \/ SaveDocument
    \/ SaveDefault
    \/ Again

SpecAgain == InitAgain /\ [][NextAgain]_vars

(***************************************************************************)
(* Properties of a repeated retag pass (checked under SpecAgain)           *)
(***************************************************************************)
\* this invocation follows one whose pass went through with no rename
\* refused, and has the same nextVerNum
SecondPassSameVersion ==
    /\ RetagPassed
    /\ pre.passes # <<>>
    /\ pre.passes[Len(pre.passes)].clean
    /\ pre.passes[Len(pre.passes)].nextVerNum = nextVerNum

\* C16: a second retag pass with the same nextVerNum leaves every name as
\* the first pass left it: a node already named base_v<nextVerNum> keeps
\* that name, and is still assigned it and counted as renamed.
C16_SecondPassKeepsNames ==
    SecondPassSameVersion =>
        /\ compName = pre.compName
        /\ bodyName = pre.bodyName
        /\ renamed_count =
              Cardinality({b \in Bodies(design) :
                              bodyName[b] # <<>> /\ Tagged(bodyName[b])})
        /\ component_renamed_count + Len(debug_errors) =
              Cardinality({c \in NonRootComponents :
                              compName[c] # <<>> /\ Tagged(compName[c])})

C16_Witness ==
    /\ SecondPassSameVersion
    /\ debug_errors = <<>>
    /\ pre.bodyName["r"] = N_dpx_bracket_v4
    /\ bodyName["r"] = N_dpx_bracket_v4
    /\ compName["A"] = <<"D","P","X","-","A","r","m","_","v","4">>
    /\ renamed_count = 1
    /\ component_renamed_count = 1

(***************************************************************************)
(* Properties of the commit, the guards and the prompts (checked under     *)
(* Spec)                                                                   *)
(***************************************************************************)
Succeeded == {i \in DOMAIN saveLog : saveLog[i].ok}

\* C17: doc.save is called at most twice in one invocation: first with the
\* default message and the sanitized comment (when there is one), a second
\* time only when the first call failed, then with the default message
\* alone; when the second call fails too the user is told and no further
\* call is made; at most one call succeeds.
C17_CommitAtMostTwice ==
    /\ Len(saveLog) <= 2
    /\ Cardinality(Succeeded) <= 1
    /\ versionNumber = pre.versionNumber + Cardinality(Succeeded)
    /\ \A i \in DOMAIN saveLog : saveLog[i].default = default_commit_message
    /\ Len(saveLog) >= 1 =>
          /\ saveLog[1].comment = commit_message
          /\ \A i \in DOMAIN commit_message : commit_message[i] # "#"
          /\ ~saveLog[1].ok => (Len(saveLog) = 2 \/ pc = "save_default")
    /\ Len(saveLog) = 2 =>
          /\ ~saveLog[1].ok
          /\ saveLog[2].comment = <<>>
          /\ pc # "save_default"
          /\ ~saveLog[2].ok =>
                \E i \in DOMAIN messages :
                    messages[i] = "Bodies renamed but failed to save document"

C17_Witness ==
    /\ Len(saveLog) = 2
    /\ saveLog[1].comment = <<"f","i","x","2">>
    /\ ~saveLog[1].ok
    /\ ~saveLog[2].ok
    /\ pc = "done"

PreconditionMessages == {"No active Fusion design found.",
                         "No active document found.",
                         "Please save the document first."}

PreconditionFailed ==
    /\ messages # <<>>
    /\ messages[1] \in PreconditionMessages

\* C18: when a guard fails (no design, no document, a document never
\* saved) the invocation ends with that one message and nothing else
\* happened: no name and no visibility changed, doc.save was not called
\* and the export did not run.
C18_GuardFailureChangesNothing ==
    PreconditionFailed =>
        /\ pc = "done"
        /\ Len(messages) = 1
        /\ compName = pre.compName
        /\ bodyName = pre.bodyName
        /\ occVis = pre.occVis
        /\ bodyVis = pre.bodyVis
        /\ saveLog = <<>>
        /\ versionNumber = pre.versionNumber
        /\ items_to_export = <<>>
        /\ execLog = <<>>

\* a guard failed on a document with names the pass would have retagged,
\* with the Version + Export button
C18_Witness ==
    /\ PreconditionFailed
    /\ pc = "done"
    /\ with_export
    /\ messages[1] = "Please save the document first."
    /\ bodyName["a"] = N_dpx_lever
    /\ compName["A"] = N_DPX_Arm_v10

\* C19: answering No to the export preview or cancelling the folder dialog
\* ends the export and nothing else: exportMgr.execute is not called, no
\* isLightBulbOn changes, and the names of the retag pass and the saved
\* version stay as they are.
C19_CancelAbortsExportOnly ==
    [][ /\ pc # "done"
        /\ pc \in {"export", "folder"} =>
              /\ UNCHANGED <<compName, bodyName, occVis, bodyVis,
                             saveLog, versionNumber, execLog>>
              /\ execLog = <<>>
              /\ ( /\ messages' # messages
                   /\ messages'[Len(messages')] = "Export cancelled." )
                    => pc' = "done" ]_vars

\* the folder dialog was cancelled after a pass that renamed and saved
C19_Witness ==
    /\ pc = "done"
    /\ messages # <<>>
    /\ messages[Len(messages)] = "Export cancelled."
    /\ execLog = <<>>
    /\ bodyName # pre.bodyName
    /\ versionNumber = pre.versionNumber + 1

\* C20: a rename the host refuses (the RuntimeError naming the root
\* component) does not end the pass: the node keeps its name and the
\* traversal goes on, for a body as for a component.
C20_RefusedRenameSkipped ==
    /\ \A i \in DOMAIN messages : messages[i] # Failed(RootComponentError)
    /\ RetagPassed =>
          \A i \in DOMAIN debug_errors :
              compName[debug_errors[i]] = pre.compName[debug_errors[i]]

(***************************************************************************)
(* Properties of a failed rename and of the order of commit and export     *)
(* (checked under Spec)                                                    *)
(***************************************************************************)
\* notify ended at its outer except
Aborted ==
    /\ messages # <<>>
    /\ messages[Len(messages)] \in {Failed(OtherError), Failed(RootComponentError)}

EntryName(e) == IF e.kind = "comp" THEN compName[e.id] ELSE bodyName[e.id]

EntryNameBefore(e) ==
    IF e.kind = "comp" THEN pre.compName[e.id] ELSE pre.bodyName[e.id]

\* the entry was renamed by the pass before it stopped at position idx
RenamedBefore(k) ==
    LET e == Traversal(design)[k]
    IN  /\ k < idx
        /\ ~(e.kind = "comp" /\ e.id = rootComp)
        /\ Tagged(EntryNameBefore(e))
        /\ e.kind = "comp" => \A i \in DOMAIN debug_errors : debug_errors[i] # e.id

\* C21: a failure of one rename that notify does not pass over ends the
\* invocation with one message: no later node of the traversal is renamed,
\* doc.save is not called, the export does not run, and the nodes renamed
\* before the failure keep their new names.
C21_FailureAbortsInvocation ==
    Aborted =>
        /\ pc = "done"
        /\ Len(messages) = 1
        /\ saveLog = <<>>
        /\ versionNumber = pre.versionNumber
        /\ items_to_export = <<>>
        /\ execLog = <<>>
        /\ \A k \in DOMAIN Traversal(design) :
              LET e == Traversal(design)[k]
              IN  EntryName(e) = IF RenamedBefore(k)
                                 THEN Retagged(EntryNameBefore(e))
                                 ELSE EntryNameBefore(e)

\* the rename of root body r failed after component A and body a were renamed
C21_Witness ==
    /\ Aborted
    /\ messages = <<Failed(OtherError)>>
    /\ with_export
    /\ design = DesignPlacedTwice
    /\ idx = 4
    /\ pre.versionNumber = 3
    /\ bodyName["a"] = N_dpx_lever_v4
    /\ compName["A"] = <<"D","P","X","-","A","r","m","_","v","4">>
    /\ bodyName["r"] = N_dpx_bracket_v2

\* export_bodies has been entered
ExportStarted ==
    \/ pc \in {"export", "folder", "item", "emit"}
    \/ items_to_export # <<>>

\* C22 as stated: in an invocation that renames and exports, doc.save is
\* called after the export loop: no doc.save call precedes an
\* exportMgr.execute call.
C22_CommitAfterExport ==
    (pc = "emit" /\ total_renamed > 0) => saveLog = <<>>

\* C22, amended: in an invocation that renames and exports, doc.save is
\* called before export_bodies is entered: every doc.save call precedes
\* the preview and every exportMgr.execute call, and none follows them.
C22_CommitBeforeExport ==
    /\ [](ExportStarted /\ total_renamed > 0 => saveLog # <<>>)
    /\ [][saveLog' # saveLog =>
            /\ ~ExportStarted
            /\ execLog = <<>>]_vars

C22_Witness ==
    /\ pc = "emit"
    /\ total_renamed > 0
    /\ Len(saveLog) = 1
    /\ saveLog[1].ok
    /\ versionNumber = pre.versionNumber + 1

(***************************************************************************)
(* The retag pass over one tree handed out in every order: root with body  *)
(* r, component A (bodies a and b) under the root, component B under A.    *)
(* allComponents comes in each of its six orders and A's bodies in both.   *)
(***************************************************************************)
TreeInOrder(comps, bodiesOfA) ==
    [ allComponents   |-> comps,
      allOccurrences  |-> <<"o1", "o2">>,
      component       |-> [o1 |-> "A", o2 |-> "B"],
      parentOcc       |-> [o1 |-> NoOcc, o2 |-> "o1"],
      bRepBodies      |-> [root |-> <<"r">>, A |-> bodiesOfA, B |-> <<>>],
      parentComponent |-> [r |-> "root", a |-> "A", b |-> "A"] ]

Orderings(S) ==
    {s \in [1..Cardinality(S) -> S] : \A i, j \in DOMAIN s : s[i] = s[j] => i = j}

DesignsInOrder ==
    {TreeInOrder(comps, bodiesOfA) :
        comps \in Orderings({"root", "A", "B"}),
        bodiesOfA \in Orderings({"a", "b"})}

InitOrder ==
    /\ design \in DesignsInOrder
    /\ versionNumber = 3
    /\ with_export = FALSE
    /\ filename = F_dpx_widget_f3d
    /\ compName \in NamedComponents(design, ComponentNames)
    /\ bodyName \in [Bodies(design) -> BodyNames]
    /\ occVis = [o \in Occurrences(design) |-> TRUE]
    /\ bodyVis = [b \in Bodies(design) |-> TRUE]
    /\ Snapshot
    /\ Blank

NextOrder ==
    \/ Begin
    \/ RetagComponent
    \/ RetagBody
    \/ RetagRootBody
    \/ ShowSummary

SpecOrder == InitOrder /\ [][NextOrder]_vars

(***************************************************************************)
(* Properties of the traversal order (checked under SpecOrder)             *)
(***************************************************************************)
\* the components whose rename the host refused
Refused == SeqToSet(debug_errors)

\* C23: the names and the four counters a retag pass ends with are given
\* by the tree, the names before, the prefix and nextVerNum alone (with
\* the renames the host refused), whatever the order of allComponents and
\* of bRepBodies: two orders of the same tree end in the same state.
C23_OrderDoesNotMatter ==
    RetagPassed =>
        /\ \A c \in Components(design) :
              compName[c] = IF /\ c # rootComp
                               /\ c \notin Refused
                               /\ Tagged(pre.compName[c])
                            THEN Retagged(pre.compName[c])
                            ELSE pre.compName[c]
        /\ \A b \in Bodies(design) :
              bodyName[b] = IF Tagged(pre.bodyName[b])
                            THEN Retagged(pre.bodyName[b])
                            ELSE pre.bodyName[b]
        /\ component_renamed_count =
              Cardinality({c \in NonRootComponents \ Refused :
                              Tagged(pre.compName[c])})
        /\ component_skipped_count =
              Cardinality({c \in NonRootComponents :
                              pre.compName[c] # <<>> /\ ~Tagged(pre.compName[c])})
        /\ renamed_count =
              Cardinality({b \in Bodies(design) : Tagged(pre.bodyName[b])})
        /\ skipped_count =
              Cardinality({b \in Bodies(design) :
                              pre.bodyName[b] # <<>> /\ ~Tagged(pre.bodyName[b])})

\* the pass over the order B, A, root with body b before body a
C23_Witness ==
    /\ RetagPassed
    /\ design.allComponents = <<"B", "A", "root">>
    /\ design.bRepBodies["A"] = <<"b", "a">>
    /\ pre.bodyName["a"] = N_dpx_lever       /\ bodyName["a"] = N_dpx_lever_v4
    /\ pre.bodyName["b"] = N_dpx_bracket_v2  /\ bodyName["b"] = N_dpx_bracket_v4
    /\ pre.bodyName["r"] = N_dpx_lever       /\ bodyName["r"] = N_dpx_lever_v4
    /\ compName["A"] = <<"D","P","X","-","A","r","m","_","v","4">>
    /\ compName["B"] = N_std_screw
    /\ renamed_count = 3
    /\ component_renamed_count = 1
    /\ component_skipped_count = 1

(***************************************************************************)
(* Properties of the commit and the export that follows (checked under     *)
(* Spec)                                                                   *)
(***************************************************************************)
BothCommitsFailed ==
    /\ Len(saveLog) = 2
    /\ ~saveLog[1].ok
    /\ ~saveLog[2].ok

\* the node an export item stands for, and its name now
ItemNodeName(item) ==
    IF item.type = "component" THEN compName[design.component[item.obj]]
    ELSE bodyName[item.obj]

\* C24: when doc.save fails twice the names of the pass stay (nothing is
\* rolled back), the user is told, the version is not advanced, and the
\* Version + Export button still runs the export, on the renamed tree.
C24_FailedCommitKeepsNames ==
    BothCommitsFailed =>
        /\ \E i \in DOMAIN messages :
              messages[i] = "Bodies renamed but failed to save document"
        /\ versionNumber = pre.versionNumber
        /\ \A b \in Bodies(design) :
              Tagged(pre.bodyName[b]) => bodyName[b] = Retagged(pre.bodyName[b])
        /\ \A c \in NonRootComponents \ SeqToSet(debug_errors) :
              Tagged(pre.compName[c]) => compName[c] = Retagged(pre.compName[c])
        /\ pc = "done" => (with_export <=> items_to_export # <<>>)
        /\ \A i \in DOMAIN items_to_export :
              items_to_export[i].name = ItemNodeName(items_to_export[i])
        /\ \A i \in DOMAIN execLog :
              execLog[i].filename = ItemNodeName(items_to_export[execLog[i].item])

\* both saves failed and the export wrote dpx_lever_v4
C24_Witness ==
    /\ BothCommitsFailed
    /\ with_export
    /\ pc = "done"
    /\ execLog # <<>>
    /\ execLog[1].ok
    /\ execLog[1].filename = N_dpx_lever_v4
    /\ pre.versionNumber = 3
    /\ versionNumber = 3

(***************************************************************************)
(* The match decision of the two phases (checked under Spec)               *)
(***************************************************************************)
\* the retag loops are running or have just ended
InPass == pc = "retag" /\ file_prefix # <<>>

\* export_bodies has just chosen its items
ExportSelected ==
    /\ itemIdx = 0
    /\ \/ items_to_export # <<>>
       \/ /\ messages # <<>>
          /\ messages[Len(messages)] = "No tagged items found to export."

ExportedComponents ==
    {design.component[items_to_export[i].obj] :
        i \in {j \in DOMAIN items_to_export :
                  items_to_export[j].type = "component"}}

ExportedBodies ==
    {items_to_export[i].obj :
        i \in {j \in DOMAIN items_to_export : items_to_export[j].type = "body"}}

MatchingComponents == {c \in NonRootComponents : Tagged(pre.compName[c])}

RenamedBodies == {b \in Bodies(design) : Tagged(pre.bodyName[b])}

\* the name matches now as it did before, and both decisions agree on it
SameDecision(now, before) ==
    LET is_tagged == matches_prefix(now, file_prefix)
    IN  /\ is_tagged <=> matches_prefix(before, file_prefix)
        /\ now # <<>> => (is_tagged <=> matches(now, file_prefix))

MatchStable ==
    InPass \/ ExportSelected =>
        /\ \A c \in Components(design) :
              SameDecision(compName[c], pre.compName[c])
        /\ \A b \in Bodies(design) :
              SameDecision(bodyName[b], pre.bodyName[b])

\* C25 as stated: at every step of the pass and when the export chooses its
\* items a node matches iff it matched before, both phases decide alike on
\* every name, and the export selects exactly the renamed nodes less the
\* bodies of a matching component.
C25_ExportsTheRenamed ==
    /\ MatchStable
    /\ ExportSelected =>
          LET matching == MatchingComponents
          IN  /\ ExportedComponents = matching \ SeqToSet(debug_errors)
              /\ ExportedBodies =
                    {b \in RenamedBodies : design.parentComponent[b] \notin matching}

\* C25: at every step of the pass and when the export chooses its items a
\* node matches iff it matched before, both phases decide alike on every
\* name, and the export selects exactly the matching nodes less the bodies
\* of a matching component: the renamed ones and the components whose
\* rename the host refused.
C25_ExportsTheMatching ==
    /\ MatchStable
    /\ ExportSelected =>
          LET matching == MatchingComponents
          IN  /\ ExportedComponents = matching
              /\ ExportedBodies =
                    {b \in RenamedBodies : design.parentComponent[b] \notin matching}
              /\ SeqToSet(debug_errors) \subseteq matching

\* DPX-Arm_v10 became DPX-Arm_v4 and is exported; its body is not, the body
\* of the other component is
C25_Witness ==
    /\ design = DesignNested
    /\ pre.compName["A"] = N_DPX_Arm_v10
    /\ pre.versionNumber = 3
    /\ pre.bodyName["a"] = N_dpx_lever
    /\ pre.compName["B"] = N_std_screw
    /\ pre.bodyName["b"] = N_dpx_bracket_v2
    /\ debug_errors = <<>>
    /\ ExportedComponents = {"A"}
    /\ ExportedBodies = {"b"}
    /\ bodyName["a"] = N_dpx_lever_v4
    /\ bodyName["b"] = N_dpx_bracket_v4

(***************************************************************************)
(* What export_bodies writes to (checked under SpecExport)                 *)
(***************************************************************************)
\* the occurrences and bodies export_bodies exports on their own
RootOccurrences ==
    {o \in Occurrences(design) :
        /\ design.component[o] # rootComp
        /\ Tagged(pre.compName[design.component[o]])}

RootBodies ==
    {b \in Bodies(design) :
        /\ Tagged(pre.bodyName[b])
        /\ \/ design.parentComponent[b] = rootComp
           \/ ~Tagged(pre.compName[design.parentComponent[b]])}

\* the direct children of the exported occurrences
ChildBodies ==
    {b \in Bodies(design) :
        \E o \in RootOccurrences : design.parentComponent[b] = design.component[o]}

ChildOccs == {o \in Occurrences(design) : design.parentOcc[o] \in RootOccurrences}

\* C26: export_bodies assigns no name, and isLightBulbOn only of the export
\* roots and of the bodies and child occurrences directly under an exported
\* component: every other body and occurrence has the visibility it had at
\* the call, at every step of the run.
C26_ExportFrame ==
    /\ compName = pre.compName
    /\ bodyName = pre.bodyName
    /\ \A b \in Bodies(design) \ (RootBodies \cup ChildBodies) :
          bodyVis[b] = pre.bodyVis[b]
    /\ \A o \in Occurrences(design) \ (RootOccurrences \cup ChildOccs) :
          occVis[o] = pre.occVis[o]

\* A is being exported: its child occurrence of B was switched on, the hidden
\* body of B one level further down is still hidden
C26_Witness ==
    /\ design = DesignNested
    /\ pc = "emit"
    /\ items_to_export[itemIdx].obj = "o1"
    /\ RootOccurrences = {"o1"}
    /\ ~pre.occVis["o2"]
    /\ occVis["o2"]
    /\ "b" \notin RootBodies \cup ChildBodies
    /\ ~pre.bodyVis["b"]
    /\ ~bodyVis["b"]

(***************************************************************************)
(* The commit of a pass that renamed nothing (checked under Spec)          *)
(***************************************************************************)
NothingRenamed == RetagPassed /\ total_renamed = 0

ExportRan ==
    \/ items_to_export # <<>>
    \/ /\ messages # <<>>
       /\ messages[Len(messages)] = "No tagged items found to export."

\* C27: doc.save is called only after a pass that renamed a node: a pass with
\* component_renamed_count + renamed_count = 0 asks for no comment, calls
\* doc.save not once and leaves the version as it was, and the
\* Version + Export button still runs export_bodies.
C27_NoCommitWithoutRename ==
    /\ saveLog # <<>> => total_renamed > 0
    /\ pc \in {"comment", "save", "save_default"} => total_renamed > 0
    /\ NothingRenamed =>
          /\ saveLog = <<>>
          /\ versionNumber = pre.versionNumber
          /\ pc \in {"export", "folder", "item", "emit", "done"}
          /\ pc # "done" => with_export
          /\ pc = "done" => (with_export <=> ExportRan)

\* nothing matched: no save, and the export was run and found no item
C27_Witness ==
    /\ NothingRenamed
    /\ with_export
    /\ pc = "done"
    /\ saveLog = <<>>
    /\ skipped_count + component_skipped_count > 0
    /\ messages[Len(messages)] = "No tagged items found to export."
====
